---- MODULE Spec2Model ----
(***************************************************************************)
(* Model of taggit/templatetags/taggit_tags.py: the module-level           *)
(* configuration lookup, the relation classifier is_generic_tagging, the   *)
(* compilation functions do_get_tag_list / do_get_tag_cloud and the render *)
(* methods of TagListNode / TagCloudNode.                                  *)
(*                                                                         *)
(* Python values are represented as follows.                               *)
(*   - the outcome of a call is Return(v) or Raise(exception class name);  *)
(*   - an optional value (None or a value) is a sequence of length <= 1:   *)
(*     None is << >> and the value v is << v >>;                           *)
(*   - a string that the code takes apart (the tag's arguments) is a       *)
(*     sequence of one-character strings; a string the code only passes    *)
(*     around or compares is a TLA+ string.                                *)
(***************************************************************************)
EXTENDS Integers, Sequences, FiniteSets, TLC

VARIABLES
    settings,        \* django.conf.settings: defined attribute name -> value
    module,          \* the imported module: import state and its five globals
    through_model,   \* the argument of is_generic_tagging
    classified,      \* the outcome of is_generic_tagging(through_model)
    token,           \* token.contents handed to the compilation function
    compiled,        \* the outcome of the compilation function
    node,            \* the template node being rendered (its attributes)
    db,              \* the database and model registry seen by the last render
    context,         \* the template context (variable name -> value)
    ret,             \* the outcome of the last render call
    pc               \* the line of render at which the last render call ended

loadVars  == <<settings, module>>
classVars == <<through_model, classified>>
tagVars   == <<token, compiled, node, db, context, ret, pc>>
vars      == <<settings, module, through_model, classified,
               token, compiled, node, db, context, ret, pc>>

\* ------------------------------------------------------------------------
\* Python call outcomes and optional values
\* ------------------------------------------------------------------------
Return(v) == [kind |-> "return", value |-> v]
Raise(e)  == [kind |-> "raise", exc |-> e]
Pending   == [kind |-> "pending"]

None      == << >>
Some(v)   == << v >>

\* ------------------------------------------------------------------------
\* Module import: lines 16-24
\* ------------------------------------------------------------------------
\* The attribute names the import looks up.  Python joins adjacent string
\* literals, so  getattr(settings, 'TAGGIT_TAG_MODEL' 'taggit.Tag')  is the
\* two-argument getattr on the joined name.
TagModelLookup      == "TAGGIT_TAG_MODELtaggit.Tag"
TaggedItemLookup    == "TAGGIT_TAGGED_ITEM_MODELtaggit.TaggedItem"
RelatedNameLookup   == "TAGGIT_TAG_FIELD_RELATED_NAMEtaggit_taggeditem_items"

\* Cloud weights are floats in the source; the model counts them in tenths.
DefaultMaxWeight == 60
DefaultMinWeight == 10

\* Attribute names a settings module may define, each with the value a
\* project would configure for it.
SettingValue ==
    [ TAGGIT_TAG_MODEL                   |-> "custom.Tag",
      TAGGIT_TAGGED_ITEM_MODEL           |-> "custom.TaggedItem",
      TAGGIT_TAG_FIELD_RELATED_NAME      |-> "custom_items",
      TAGGIT_TAGCLOUD_MAX_WEIGHT         |-> 80,
      TAGGIT_TAGCLOUD_MIN_WEIGHT         |-> 20 ]
    @@ (TagModelLookup    :> "joined.Tag")
    @@ (TaggedItemLookup  :> "joined.TaggedItem")
    @@ (RelatedNameLookup :> "joined_items")

SettingNames == DOMAIN SettingValue

SettingsModules == { [n \in S |-> SettingValue[n]] : S \in SUBSET SettingNames }

\* getattr(obj, name): AttributeError when the attribute is not defined.
getattr2(obj, name) ==
    IF name \in DOMAIN obj THEN Return(obj[name]) ELSE Raise("AttributeError")

\* getattr(obj, name, default)
getattr3(obj, name, default) ==
    IF name \in DOMAIN obj THEN Return(obj[name]) ELSE Return(default)

Unset == "<unset>"

\* The five module-level assignments, in source order
TAG_MODEL_lookup(s)              == getattr2(s, TagModelLookup)
TAGGED_ITEM_MODEL_lookup(s)      == getattr2(s, TaggedItemLookup)
TAG_FIELD_RELATED_NAME_lookup(s) == getattr2(s, RelatedNameLookup)
MAX_WEIGHT_lookup(s) == getattr3(s, "TAGGIT_TAGCLOUD_MAX_WEIGHT", DefaultMaxWeight)
MIN_WEIGHT_lookup(s) == getattr3(s, "TAGGIT_TAGCLOUD_MIN_WEIGHT", DefaultMinWeight)

\* Importing the module runs the assignments in order; the first one that
\* raises ends the import with that exception.
ImportModule(s) ==
    LET a == TAG_MODEL_lookup(s)
        b == TAGGED_ITEM_MODEL_lookup(s)
        c == TAG_FIELD_RELATED_NAME_lookup(s)
        d == MAX_WEIGHT_lookup(s)
        e == MIN_WEIGHT_lookup(s)
        failed == [ state |-> "AttributeError",
                    TAG_MODEL |-> Unset, TAGGED_ITEM_MODEL |-> Unset,
                    TAG_FIELD_RELATED_NAME |-> Unset,
                    MAX_WEIGHT |-> 0, MIN_WEIGHT |-> 0 ]
    IN  IF a.kind = "raise" THEN failed
        ELSE IF b.kind = "raise" THEN [failed EXCEPT !.TAG_MODEL = a.value]
        ELSE IF c.kind = "raise"
             THEN [failed EXCEPT !.TAG_MODEL = a.value,
                                 !.TAGGED_ITEM_MODEL = b.value]
        ELSE [ state |-> "loaded",
               TAG_MODEL |-> a.value, TAGGED_ITEM_MODEL |-> b.value,
               TAG_FIELD_RELATED_NAME |-> c.value,
               MAX_WEIGHT |-> d.value, MIN_WEIGHT |-> e.value ]

NotImported ==
    [ state |-> "unloaded",
      TAG_MODEL |-> Unset, TAGGED_ITEM_MODEL |-> Unset,
      TAG_FIELD_RELATED_NAME |-> Unset, MAX_WEIGHT |-> 0, MIN_WEIGHT |-> 0 ]

LoadModule ==
    /\ module.state = "unloaded"
    /\ module' = ImportModule(settings)
    /\ UNCHANGED <<settings, classVars, tagVars>>

\* ------------------------------------------------------------------------
\* is_generic_tagging: lines 29-59
\* ------------------------------------------------------------------------
\* A through model's _meta: `fields` maps the names get_all_field_names()
\* lists to the class of the field; `virtual_fields` is the list of virtual
\* fields, each with its class and name.  A through model the render method
\* reads also carries `content_model` and `tag_relname`: what lines 157 and
\* 177 read from its content_object and tag fields.
FieldClasses   == {"ForeignKey", "OneToOneField", "CharField", "GenericRelation"}
VirtualClasses == {"GenericForeignKey", "VirtualField"}

\* isinstance(field, cls): OneToOneField is a subclass of ForeignKey.
isinstance(field_cls, cls) ==
    \/ field_cls = cls
    \/ (cls = "ForeignKey" /\ field_cls = "OneToOneField")

\* the classifier with its two return values exchanged
is_generic_tagging_swapped(tm) ==
    IF "content_object" \in DOMAIN tm.fields
    THEN IF isinstance(tm.fields["content_object"], "ForeignKey")
         THEN Return(TRUE)
         ELSE Raise("ImproperlyConfigured")
    ELSE IF \E i \in 1..Len(tm.virtual_fields) :
                /\ isinstance(tm.virtual_fields[i].cls, "GenericForeignKey")
                /\ tm.virtual_fields[i].name = "content_object"
         THEN Return(FALSE)
         ELSE Raise("ImproperlyConfigured")

is_generic_tagging(tm) ==
    IF "content_object" \in DOMAIN tm.fields
    THEN IF isinstance(tm.fields["content_object"], "ForeignKey")
         THEN Return(FALSE)
         ELSE Raise("ImproperlyConfigured")
    ELSE IF \E i \in 1..Len(tm.virtual_fields) :
                /\ isinstance(tm.virtual_fields[i].cls, "GenericForeignKey")
                /\ tm.virtual_fields[i].name = "content_object"
         THEN Return(TRUE)
         ELSE Raise("ImproperlyConfigured")

\* Through models handed to the classifier.  A model class has one
\* attribute per name, so no two of its fields share a name.
MaxVirtual == 2
VirtualNames == {"content_object", "object", "owner"}
VirtualField == [cls : VirtualClasses, name : VirtualNames]

VirtualLists ==
    UNION { [1..n -> VirtualField] : n \in 0..MaxVirtual }

FieldMaps ==
    { [tag |-> "ForeignKey"] } \cup
    { [tag |-> "ForeignKey", content_object |-> c] : c \in FieldClasses }

DistinctNames(tm) ==
    /\ \A i, j \in 1..Len(tm.virtual_fields) :
          i # j => tm.virtual_fields[i].name # tm.virtual_fields[j].name
    /\ \A i \in 1..Len(tm.virtual_fields) :
          tm.virtual_fields[i].name \notin DOMAIN tm.fields

ThroughModels ==
    { tm \in [fields : FieldMaps, virtual_fields : VirtualLists] :
         DistinctNames(tm) }

IsGenericTagging ==
    /\ classified = Pending
    /\ classified' = is_generic_tagging(through_model)
    /\ UNCHANGED <<through_model, loadVars, tagVars>>

\* ------------------------------------------------------------------------
\* Strings as the compilation function takes them apart
\* ------------------------------------------------------------------------
Lowers == <<"a","b","c","d","e","f","g","h","i","j","k","l","m",
            "n","o","p","q","r","s","t","u","v","w","x","y","z">>
Uppers == <<"A","B","C","D","E","F","G","H","I","J","K","L","M",
            "N","O","P","Q","R","S","T","U","V","W","X","Y","Z">>
Digits == <<"0","1","2","3","4","5","6","7","8","9">>

Range(f) == { f[i] : i \in DOMAIN f }

IsSpace(c)   == c \in {" ", "\t"}                        \* \s
IsDigit(c)   == c \in Range(Digits)                      \* \d
IsWord(c)    == c \in Range(Lowers) \cup Range(Uppers) \cup Range(Digits) \cup {"_"}  \* \w
IsForChar(c) == IsWord(c) \/ c \in {".", "'", "\""}      \* [.'"\w]

\* str.lower()
LowerChar(c) ==
    IF c \in Range(Uppers)
    THEN Lowers[CHOOSE i \in DOMAIN Uppers : Uppers[i] = c]
    ELSE c
lower(s) == [i \in DOMAIN s |-> LowerChar(s[i])]

\* The position after the leading run of characters satisfying P, from i on.
RECURSIVE SkipWhile(_, _, _)
SkipWhile(s, i, space) ==
    IF i <= Len(s) /\ (IsSpace(s[i]) <=> space)
    THEN SkipWhile(s, i + 1, space) ELSE i

\* str.split(): the list of whitespace-separated words from position i on.
RECURSIVE WordsFrom(_, _)
WordsFrom(s, i) ==
    LET b == SkipWhile(s, i, TRUE)
        e == SkipWhile(s, b, FALSE)
    IN  IF b > Len(s) THEN << >>
        ELSE <<SubSeq(s, b, e - 1)>> \o WordsFrom(s, e)
split(s) == WordsFrom(s, 1)

\* str.split(None, 1): the first word and the rest of the string after the
\* whitespace that follows it (trailing whitespace kept); one element when
\* nothing follows, none when the string has no word.
split_None_1(s) ==
    LET b == SkipWhile(s, 1, TRUE)
        e == SkipWhile(s, b, FALSE)
        r == SkipWhile(s, e, TRUE)
    IN  IF b > Len(s) THEN << >>
        ELSE IF r > Len(s) THEN <<SubSeq(s, b, e - 1)>>
        ELSE <<SubSeq(s, b, e - 1), SubSeq(s, r, Len(s))>>

\* str.split('.')
RECURSIVE SplitDotFrom(_, _, _)
SplitDotFrom(s, i, start) ==
    IF i > Len(s) THEN <<SubSeq(s, start, Len(s))>>
    ELSE IF s[i] = "."
    THEN <<SubSeq(s, start, i - 1)>> \o SplitDotFrom(s, i + 1, i + 1)
    ELSE SplitDotFrom(s, i + 1, start)
split_dot(s) == SplitDotFrom(s, 1, 1)

\* int(s) for a string of decimal digits
DigitValue(c) == (CHOOSE i \in DOMAIN Digits : Digits[i] = c) - 1
RECURSIVE int(_)
int(s) ==
    IF Len(s) = 0 THEN 0
    ELSE 10 * int(SubSeq(s, 1, Len(s) - 1)) + DigitValue(s[Len(s)])

\* "format" % value: a single value on the right fills one placeholder; the
\* operation raises TypeError when the format holds another number of them.
PercentFormat(placeholders, values) ==
    IF placeholders = values THEN Return("message") ELSE Raise("TypeError")

\* ------------------------------------------------------------------------
\* tag_signature: lines 70-77
\* ------------------------------------------------------------------------
\* positions reachable from i by consuming characters of one class
StarSpace(s, i) == { j \in i..(Len(s) + 1) : \A k \in i..(j - 1) : IsSpace(s[k]) }
PlusSpace(s, i) == StarSpace(s, i) \ {i}
PlusFor(s, i)   == { j \in (i + 1)..(Len(s) + 1) : \A k \in i..(j - 1) : IsForChar(s[k]) }
PlusDigit(s, i) == { j \in (i + 1)..(Len(s) + 1) : \A k \in i..(j - 1) : IsDigit(s[k]) }
PlusWord(s, i)  == { j \in (i + 1)..(Len(s) + 1) : \A k \in i..(j - 1) : IsWord(s[k]) }
Literal(s, i, lit) ==
    IF i + Len(lit) - 1 <= Len(s) /\ SubSeq(s, i, i + Len(lit) - 1) = lit
    THEN {i + Len(lit)} ELSE {}

\* a clause  keyword\s+<class>+  starting at i: the positions where it can end
ForEnds(s, i) ==
    UNION { UNION { PlusFor(s, b) : b \in PlusSpace(s, a) }
              : a \in Literal(s, i, <<"f","o","r">>) }
LimitEnds(s, i) ==
    UNION { UNION { PlusDigit(s, b) : b \in PlusSpace(s, a) }
              : a \in Literal(s, i, <<"l","i","m","i","t">>) }
AsEnds(s, i) ==
    UNION { UNION { PlusWord(s, b) : b \in PlusSpace(s, a) }
              : a \in Literal(s, i, <<"a","s">>) }

\* an optional group starting at i: (end position, captured text or None)
OptionalGroup(s, i, ends) ==
    { <<e, Some(SubSeq(s, i, e - 1))>> : e \in ends } \cup { <<i, None>> }

\* every way the whole of s matches
\*   ^\s* (for\s+[.'"\w]+)? \s+ (limit\s+\d+)? \s+ (as\s+\w+) \s* $
SignatureMatches(s) ==
    UNION { UNION { UNION { UNION { UNION {
        { [for_clause |-> f[2], limit_clause |-> l[2],
           as_clause |-> Some(SubSeq(s, p4, p5 - 1))] :
             p5 \in { e \in AsEnds(s, p4) : (Len(s) + 1) \in StarSpace(s, e) } }
        : p4 \in PlusSpace(s, l[1]) }
        : l \in OptionalGroup(s, p2, LimitEnds(s, p2)) }
        : p2 \in PlusSpace(s, f[1]) }
        : f \in OptionalGroup(s, p0, ForEnds(s, p0)) }
        : p0 \in StarSpace(s, 1) }

\* re.search(tag_signature, args): None, or the groups of the match the
\* backtracking matcher finds first (an optional group is tried present
\* before it is tried absent).
re_search(s) ==
    LET all     == SignatureMatches(s)
        withFor == { m \in all : m.for_clause # None }
        first   == IF withFor # {} THEN withFor ELSE all
        withLim == { m \in first : m.limit_clause # None }
        best    == IF withLim # {} THEN withLim ELSE first
    IN  IF all = {} THEN None ELSE Some(CHOOSE m \in best : TRUE)

\* ------------------------------------------------------------------------
\* TagListNode.__init__: lines 118-123
\* ------------------------------------------------------------------------
\* `x and x.lower() or None` for an optional string x
LowerOrNone(x) ==
    IF x # None /\ Len(x[1]) > 0 /\ Len(lower(x[1])) > 0 THEN Some(lower(x[1])) ELSE None

\* `content_qs` is the attribute render sets: None (in the optional-value
\* sense) while the instance has no such attribute.
TagListNode(asvar, app_label, model_name, content_qs_var, limit) ==
    [ cls            |-> "TagListNode",
      asvar          |-> asvar,
      app_label      |-> LowerOrNone(app_label),
      model_name     |-> LowerOrNone(model_name),
      content_qs_var |-> content_qs_var,
      limit          |-> limit,
      content_qs     |-> None ]

\* ------------------------------------------------------------------------
\* do_get_tag_list: lines 64-114
\* ------------------------------------------------------------------------
IsQuote(c) == c \in {"\"", "'"}

\* lines 106-114, once the `for` clause is interpreted
do_get_tag_list_limit(tag_name, asvar, app_label, model_name, content_qs_var, limitvar) ==
    IF Len(limitvar) > 0
    THEN IF int(limitvar) <= 0
         THEN \* ValueError, caught on line 110; line 111 builds the message
              IF PercentFormat(2, 1).kind = "raise"
              THEN Raise("TypeError")
              ELSE Raise("TemplateSyntaxError")
         ELSE Return(TagListNode(asvar, app_label, model_name, content_qs_var,
                                 Some(int(limitvar))))
    ELSE Return(TagListNode(asvar, app_label, model_name, content_qs_var, None))

\* lines 86-104, once the three clause arguments are extracted
do_get_tag_list_for(tag_name, forvar, limitvar, asvar) ==
    IF Len(forvar) > 0
    THEN IF forvar[1] = forvar[Len(forvar)] /\ IsQuote(forvar[1])
         THEN LET stripped == SubSeq(forvar, 2, Len(forvar) - 1)
                  parts    == split_dot(stripped)
              IN  IF "." \notin Range(stripped)
                  THEN do_get_tag_list_limit(tag_name, asvar, Some(stripped), None,
                                             None, limitvar)
                  ELSE IF Len(parts) = 2
                  THEN do_get_tag_list_limit(tag_name, asvar, Some(parts[1]),
                                             Some(parts[2]), None, limitvar)
                  ELSE \* ValueError, caught on line 98; line 99 builds the message
                       IF PercentFormat(2, 1).kind = "raise"
                       THEN Raise("TypeError")
                       ELSE Raise("TemplateSyntaxError")
         ELSE do_get_tag_list_limit(tag_name, asvar, None, None, Some(forvar), limitvar)
    ELSE do_get_tag_list_limit(tag_name, asvar, None, None, None, limitvar)

\* the second word of a matched group; None.split() raises AttributeError
GroupArgument(group) ==
    IF group = None THEN Raise("AttributeError") ELSE Return(split(group[1])[2])

do_get_tag_list(contents) ==
    LET parts == split_None_1(contents)
    IN  IF Len(parts) # 2
        THEN \* ValueError on unpacking, caught on line 68
             IF Len(split(contents)) = 0 THEN Raise("IndexError")
             ELSE IF PercentFormat(1, 1).kind = "raise" THEN Raise("TypeError")
             ELSE Raise("TemplateSyntaxError")
        ELSE
        LET tag_name == parts[1]
            args     == parts[2]
            m        == re_search(args)
        IN  IF m = None
            THEN \* line 79: the message is built before the raise
                 IF PercentFormat(2, 1).kind = "raise" THEN Raise("TypeError")
                 ELSE Raise("TemplateSyntaxError")
            ELSE
            LET bits     == m[1]
                forvar   == GroupArgument(bits.for_clause)
                limitvar == GroupArgument(bits.limit_clause)
                asvar    == GroupArgument(bits.as_clause)
            IN  IF forvar.kind = "raise" THEN forvar
                ELSE IF limitvar.kind = "raise" THEN limitvar
                ELSE IF asvar.kind = "raise" THEN asvar
                ELSE do_get_tag_list_for(tag_name, forvar.value, limitvar.value,
                                         asvar.value)

\* ------------------------------------------------------------------------
\* do_get_tag_cloud and TagCloudNode.__init__: lines 186-192
\* ------------------------------------------------------------------------
\* the body of do_get_tag_cloud is `pass`: it returns None
do_get_tag_cloud(contents) == Return(None)

TagCloudNode == [ cls |-> "TagCloudNode" ]

\* ------------------------------------------------------------------------
\* Models, rows and query sets
\* ------------------------------------------------------------------------
Model(app_label, object_name) ==
    [app_label |-> app_label, object_name |-> object_name]

\* the ContentType row of a model: its app label and lower-cased class name
ContentTypeOf(model) ==
    [app_label |-> model.app_label, model |-> lower(model.object_name)]

\* a tagged item: the tag, and the content object as (content type, id)
Row(tag, model, object_id) ==
    [tag |-> tag, content_type |-> ContentTypeOf(model), object_id |-> object_id]

\* an element of a collection: a primary key and, on an annotated query
\* set, the `count` annotation
Object(pk)           == [pk |-> pk, count |-> None]
Annotated(pk, count) == [pk |-> pk, count |-> Some(count)]

\* a context value: a QuerySet or a list of objects of one model, or a string
QuerySet(model, rows) == [type |-> "QuerySet", model |-> Some(model), rows |-> rows]
List(model, rows)     == [type |-> "list", model |-> Some(model), rows |-> rows]
String                == [type |-> "str", model |-> None, rows |-> << >>]

TagModel == Model(<<"t","a","g","g","i","t">>, <<"T","a","g">>)

\* number of rows of `rows` that belong to tag pk
CountRows(rows, pk) == Cardinality({ r \in rows : r.tag = pk })

\* the element that comes first by count descending (primary key ascending
\* among equal counts)
First(objs) ==
    CHOOSE o \in objs : \A q \in objs :
        \/ o.count[1] > q.count[1]
        \/ (o.count[1] = q.count[1] /\ o.pk <= q.pk)

\* order_by('-count') on an annotated set of objects
RECURSIVE OrderByCountDesc(_)
OrderByCountDesc(objs) ==
    IF objs = {} THEN << >>
    ELSE <<First(objs)>> \o OrderByCountDesc(objs \ {First(objs)})

\* generic_annotate(tag_qs, gfk_field, Count('pk'), generic_qs, desc=True,
\* alias='count'): every tag of tag_qs annotated with the number of rows of
\* generic_qs it has, by count descending
generic_annotate(tag_qs, generic_qs) ==
    OrderByCountDesc({ Annotated(pk, CountRows(generic_qs, pk)) : pk \in tag_qs })

\* Variable(name).resolve(context): the value bound to the name;
\* VariableDoesNotExist when the context does not bind it
resolve(name, ctx) ==
    IF name \in DOMAIN ctx THEN Return(ctx[name]) ELSE Raise("VariableDoesNotExist")

\* context[key] = value
SetItem(ctx, key, value) ==
    [k \in DOMAIN ctx \cup {key} |-> IF k = key THEN value ELSE ctx[k]]

\* the rows whose content object is one of the objects of a collection
ContentObjectIn(rows, collection) ==
    { r \in rows :
        /\ r.content_type = ContentTypeOf(collection.model[1])
        /\ \E i \in DOMAIN collection.rows : collection.rows[i].pk = r.object_id }

\* ------------------------------------------------------------------------
\* TagListNode.render: lines 125-184
\* ------------------------------------------------------------------------
\* How the body of the try block ends: at line 161, 165 or 176 (return ''),
\* at line 182 (the result is stored and the method falls off its end) or at
\* line 184 (an exception was caught).  `self` carries the attribute
\* assignment of line 134, `value` the query set line 182 stores.
Exit(line, self, value) == [pc |-> line, self |-> self, value |-> value]
Caught(self)            == Exit("line 184", self, None)

\* truth value of an optional integer (`if self.limit:`)
Truthy(limit) == limit # None /\ limit[1] # 0

\* lines 137-154: the generic tagging model
render_generic(self, context_, d) ==
    LET generic_qs == d.rows
        by_type == { r \in generic_qs :
                        r.content_type = [app_label |-> self.app_label[1],
                                          model |-> self.model_name[1]] }
        by_app  == { r \in generic_qs : r.content_type.app_label = self.app_label[1] }
        scoped  == IF self.app_label # None /\ self.model_name # None THEN by_type
                   ELSE IF self.app_label # None THEN by_app
                   ELSE generic_qs
        final   == IF self.content_qs # None
                   THEN ContentObjectIn(scoped, self.content_qs[1])
                   ELSE scoped
    IN  IF /\ self.app_label # None /\ self.model_name # None
           /\ [app_label |-> self.app_label[1], model |-> self.model_name[1]]
                 \notin d.content_types
        THEN Caught(self)                          \* ContentType.DoesNotExist
        ELSE IF self.content_qs # None /\ ~d.gfk_lookup
        THEN Caught(self)                          \* FieldError
        ELSE Exit("line 182", self, generic_annotate(d.tags, final))

\* lines 166-181: the model-specific query, once the scope is accepted
render_specific_query(self, context_, d, content_model) ==
    LET content_qs == resolve(self.content_qs_var[1], context_)
        filtered   == self.content_qs_var # None
        rows       == IF filtered
                      THEN ContentObjectIn(d.rows, content_qs.value)
                      ELSE d.rows
        qs         == IF filtered THEN { r.tag : r \in rows } ELSE d.tags
        annotated  == { Annotated(pk, CountRows(rows, pk)) : pk \in qs }
    IN  IF filtered /\ content_qs.kind = "raise"
        THEN Caught(self)
        ELSE IF filtered /\ ~( /\ content_qs.value.type = "QuerySet"
                               /\ content_qs.value.model = Some(content_model) )
        THEN Exit("line 176", self, None)
        ELSE IF filtered /\ ~d.reverse_lookup
        THEN Caught(self)                          \* FieldError
        ELSE IF d.through.tag_relname = None
        THEN Caught(self)                          \* AttributeError, line 177
        ELSE IF Truthy(self.limit)
        THEN Caught(self)       \* order_by on a sliced query: AssertionError
        ELSE Exit("line 182", self, OrderByCountDesc(annotated))

\* lines 156-165: the model-specific tagging model
render_specific(self, context_, d) ==
    LET content_model == d.through.content_model[1]
    IN  IF self.app_label # None
           /\ self.app_label[1] # lower(content_model.app_label)
        THEN Exit("line 161", self, None)
        ELSE IF /\ self.app_label # None /\ self.model_name # None
                /\ self.model_name[1] # lower(content_model.object_name)
        THEN Exit("line 165", self, None)
        ELSE render_specific_query(self, context_, d, content_model)

\* line 134 with a variable that cannot be resolved skipped instead of raising
resolve_content_qs_skipping(self, context_) ==
    IF self.content_qs_var # None
    THEN LET v == resolve(self.content_qs_var[1], context_)
         IN  IF v.kind = "raise" THEN Return(self)
             ELSE Return([self EXCEPT !.content_qs = Some(v.value)])
    ELSE Return(self)

\* line 134: self.content_qs = Variable(self.content_qs_var).resolve(context)
resolve_content_qs(self, context_) ==
    IF self.content_qs_var # None
    THEN LET v == resolve(self.content_qs_var[1], context_)
         IN  IF v.kind = "raise" THEN Raise(v.exc)
             ELSE Return([self EXCEPT !.content_qs = Some(v.value)])
    ELSE Return(self)

\* lines 126-182: the body of the try block
render_try(self, context_, d) ==
    IF ~d.installed
    THEN Caught(self)            \* get_model gives None: AttributeError, line 131
    ELSE LET assigned == resolve_content_qs(self, context_)
         IN  IF assigned.kind = "raise" THEN Caught(self)
             ELSE LET generic == is_generic_tagging(d.through)
                  IN  IF generic.kind = "raise" THEN Caught(assigned.value)
                      ELSE IF generic.value
                      THEN render_generic(assigned.value, context_, d)
                      ELSE render_specific(assigned.value, context_, d)

EmptyString == << >>

\* the value the method returns when it ends at `line`
render_return(line) ==
    IF line = "line 182" THEN Return(None) ELSE Return(Some(EmptyString))

\* the call with the target variable bound to an empty result on failure
render_binding_on_failure(self, context_, d) ==
    LET r == render_try(self, context_, d)
    IN  [ ret     |-> render_return(r.pc),
          context |-> SetItem(context_, self.asvar,
                              QuerySet(TagModel,
                                       IF r.pc = "line 182" THEN r.value ELSE << >>)),
          self    |-> r.self,
          pc      |-> r.pc ]

\* the whole call: the return value, the context and the node afterwards
render(self, context_, d) ==
    LET r == render_try(self, context_, d)
    IN  [ ret     |-> render_return(r.pc),
          context |-> IF r.pc = "line 182"
                      THEN SetItem(context_, self.asvar,
                                   QuerySet(TagModel, r.value))
                      ELSE context_,
          self    |-> r.self,
          pc      |-> r.pc ]

\* TagCloudNode.render: lines 194-195
render_cloud(self, context_, d) ==
    [ ret |-> Return(Some(EmptyString)), context |-> context_, self |-> self,
      pc |-> "line 195" ]

\* ------------------------------------------------------------------------
\* Inputs: tag invocations, contexts and databases
\* ------------------------------------------------------------------------
MaxLimit == 2       \* `limit` arguments run from 0 to MaxLimit
MaxTags  == 3       \* tags in the database

get_tag_list  == <<"g","e","t","_","t","a","g","_","l","i","s","t">>
get_tag_cloud == <<"g","e","t","_","t","a","g","_","c","l","o","u","d">>
blog == <<"b","l","o","g">>
shop == <<"s","h","o","p">>
objs == <<"o","b","j","s">>
tags == <<"t","a","g","s">>
SP   == <<" ">>

BlogPost == Model(blog, <<"P","o","s","t">>)
ShopItem == Model(shop, <<"I","t","e","m">>)

\* decimal digits of a natural number
RECURSIVE Decimal(_)
Decimal(n) ==
    IF n < 10 THEN <<Digits[n + 1]>>
    ELSE Decimal(n \div 10) \o <<Digits[(n % 10) + 1]>>

\* arguments of the `for` clause: a context variable, quoted scopes with
\* zero, one and two dots
ForArguments ==
    { objs,
      <<"'">> \o blog \o <<"'">>,
      <<"\"">> \o <<"B","l","o","g",".","P","o","s","t">> \o <<"\"">>,
      <<"'">> \o <<"s","h","o","p",".","p","o","s","t">> \o <<"'">>,
      <<"'","a",".","b",".","c","'">> }

LimitArguments == { Decimal(n) : n \in 0..MaxLimit } \cup { <<"-","1">> }

\* a clause preceded by its separator, or nothing when the clause is left out
Clauses(sep, keyword, arguments) ==
    { << >> } \cup { sep \o keyword \o SP \o a : a \in arguments }

\* token.contents: the tag name followed by any of the three clauses, in
\* order, single-spaced or with the later clauses double-spaced
Contents(tag_name) ==
    { tag_name \o f \o l \o a :
        f \in Clauses(SP, <<"f","o","r">>, ForArguments),
        l \in UNION { Clauses(sep, <<"l","i","m","i","t">>, LimitArguments)
                        : sep \in {SP, SP \o SP} },
        a \in UNION { Clauses(sep, <<"a","s">>, {tags})
                        : sep \in {SP, SP \o SP} } }

\* template contexts at the start of a page render: `objs` unbound, or bound
\* to a query set or a list; `tags` unbound or already bound
Collections ==
    { QuerySet(BlogPost, <<Object(1)>>),
      QuerySet(ShopItem, <<Object(1)>>),
      List(BlogPost, <<Object(1)>>) }

Contexts ==
    { << >> } \cup { (objs :> c) : c \in Collections }
    \cup { (tags :> String) }
    \cup { (objs :> c) @@ (tags :> String) : c \in Collections }

\* through models of the tagging application: the generic one, the
\* model-specific one for blog.Post (whose tag field may or may not carry the
\* `relname` attribute line 177 reads) and a malformed one
GenericThrough ==
    [ fields         |-> [tag |-> "ForeignKey"],
      virtual_fields |-> <<[cls |-> "GenericForeignKey", name |-> "content_object"]>>,
      content_model  |-> None,
      tag_relname    |-> None ]

DirectThrough(relname) ==
    [ fields         |-> [tag |-> "ForeignKey", content_object |-> "ForeignKey"],
      virtual_fields |-> << >>,
      content_model  |-> Some(BlogPost),
      tag_relname    |-> relname ]

MalformedThrough ==
    [ fields         |-> [tag |-> "ForeignKey", content_object |-> "CharField"],
      virtual_fields |-> << >>,
      content_model  |-> None,
      tag_relname    |-> None ]

ContentTypes == { ContentTypeOf(BlogPost), ContentTypeOf(ShopItem) }

RowSets ==
    { { Row(1, BlogPost, 1), Row(2, BlogPost, 1), Row(2, BlogPost, 2),
        Row(2, ShopItem, 1) },
      { Row(1, BlogPost, 2), Row(1, ShopItem, 1) } }

\* the rows a through model can hold: a model-specific one only refers to
\* its content model
RowsOf(through, rows) ==
    IF through.content_model = None THEN rows
    ELSE { r \in rows : r.content_type = ContentTypeOf(through.content_model[1]) }

\* `installed`: get_model finds the tag and through models.  `gfk_lookup`,
\* `reverse_lookup`: the ORM accepts the lookup of line 153, of line 171-173.
Database(installed, through, rows, gfk_lookup, reverse_lookup) ==
    [ installed      |-> installed,
      through        |-> through,
      content_types  |-> ContentTypes,
      tags           |-> 1..MaxTags,
      rows           |-> RowsOf(through, rows),
      gfk_lookup     |-> gfk_lookup,
      reverse_lookup |-> reverse_lookup ]

Databases ==
    { Database(TRUE, GenericThrough, r, g, FALSE) : r \in RowSets, g \in BOOLEAN }
    \cup { Database(TRUE, DirectThrough(n), r, FALSE, l) :
              r \in RowSets, n \in {None, Some("items")}, l \in BOOLEAN }
    \cup { Database(TRUE, MalformedThrough, r, FALSE, FALSE) : r \in RowSets }
    \cup { Database(FALSE, GenericThrough, r, FALSE, FALSE) : r \in RowSets }

\* ------------------------------------------------------------------------
\* Actions
\* ------------------------------------------------------------------------
NoNode == [cls |-> "none"]

\* the template parser hands a get_tag_list token to do_get_tag_list and
\* keeps the node it returns
DoGetTagList ==
    /\ compiled = Pending
    /\ \E c \in Contents(get_tag_list) :
          /\ token' = c
          /\ compiled' = do_get_tag_list(c)
          /\ node' = IF compiled'.kind = "return" THEN compiled'.value ELSE NoNode
    /\ UNCHANGED <<db, context, ret, pc, loadVars, classVars>>

\* the template parser hands a get_tag_cloud token to do_get_tag_cloud
DoGetTagCloud ==
    /\ compiled = Pending
    /\ \E c \in Contents(get_tag_cloud) :
          /\ token' = c
          /\ compiled' = do_get_tag_cloud(c)
    /\ node' = NoNode
    /\ UNCHANGED <<db, context, ret, pc, loadVars, classVars>>

\* TagListNode(...) called directly
NewTagListNode ==
    /\ compiled = Pending
    /\ \E app_label \in {None, Some(blog), Some(shop)},
          model_name \in {None, Some(<<"P","o","s","t">>)},
          content_qs_var \in {None, Some(objs)},
          limit \in {None} \cup { Some(n) : n \in 1..MaxLimit } :
          /\ model_name # None => app_label # None
          /\ node' = TagListNode(tags, app_label, model_name, content_qs_var, limit)
    /\ compiled' = [kind |-> "constructed"]
    /\ UNCHANGED <<token, db, context, ret, pc, loadVars, classVars>>

\* TagCloudNode() called directly
NewTagCloudNode ==
    /\ compiled = Pending
    /\ node' = TagCloudNode
    /\ compiled' = [kind |-> "constructed"]
    /\ UNCHANGED <<token, db, context, ret, pc, loadVars, classVars>>

\* a page render begins: the template is rendered with a new context
\* against the rows the database holds then (its models stay as they are)
BeginRender ==
    /\ node # NoNode
    /\ pc # "start"
    /\ \E c \in Contexts, r \in RowSets :
          /\ context' = c
          /\ db' = [db EXCEPT !.rows = RowsOf(db.through, r)]
    /\ ret' = Pending
    /\ pc' = "start"
    /\ UNCHANGED <<token, compiled, node, loadVars, classVars>>

TagListNodeRender ==
    /\ pc = "start"
    /\ node.cls = "TagListNode"
    /\ LET r == render(node, context, db)
       IN  /\ ret' = r.ret
           /\ context' = r.context
           /\ node' = r.self
           /\ pc' = r.pc
    /\ UNCHANGED <<token, compiled, db, loadVars, classVars>>

TagCloudNodeRender ==
    /\ pc = "start"
    /\ node.cls = "TagCloudNode"
    /\ LET r == render_cloud(node, context, db)
       IN  /\ ret' = r.ret
           /\ context' = r.context
           /\ node' = r.self
           /\ pc' = r.pc
    /\ UNCHANGED <<token, compiled, db, loadVars, classVars>>

\* ------------------------------------------------------------------------
\* Specifications
\* ------------------------------------------------------------------------
Idle == "idle"

InitLoad ==
    /\ settings \in SettingsModules
    /\ module = NotImported
    /\ through_model = Idle /\ classified = Idle
    /\ token = Idle /\ compiled = Idle /\ node = Idle
    /\ db = Idle /\ context = Idle /\ ret = Idle /\ pc = Idle

NextLoad == LoadModule

SpecLoad == InitLoad /\ [][NextLoad]_vars

InitClassify ==
    /\ through_model \in ThroughModels
    /\ classified = Pending
    /\ settings = Idle /\ module = Idle
    /\ token = Idle /\ compiled = Idle /\ node = Idle
    /\ db = Idle /\ context = Idle /\ ret = Idle /\ pc = Idle

NextClassify == IsGenericTagging

SpecClassify == InitClassify /\ [][NextClassify]_vars

Init ==
    /\ token = << >>
    /\ compiled = Pending
    /\ node = NoNode
    /\ db \in Databases
    /\ context = << >>
    /\ ret = Pending
    /\ pc = "idle"
    /\ settings = Idle /\ module = Idle
    /\ through_model = Idle /\ classified = Idle

Next ==
    \/ DoGetTagList
    \/ DoGetTagCloud
    \/ NewTagListNode
    \/ NewTagCloudNode
    \/ BeginRender
    \/ TagListNodeRender
    \/ TagCloudNodeRender

Spec == Init /\ [][Next]_vars

\* ------------------------------------------------------------------------
\* Properties
\* ------------------------------------------------------------------------

\* C8: importing the module never fails, and each of the five options takes
\* the value the settings define for it, or its default when the settings do
\* not define it.
ConfiguredOr(name, default) ==
    IF name \in DOMAIN settings THEN settings[name] ELSE default

C8_OptionsFallBackToDefaults ==
    module.state # "unloaded" =>
        /\ module.state = "loaded"
        /\ module.TAG_MODEL = ConfiguredOr("TAGGIT_TAG_MODEL", "taggit.Tag")
        /\ module.TAGGED_ITEM_MODEL =
              ConfiguredOr("TAGGIT_TAGGED_ITEM_MODEL", "taggit.TaggedItem")
        /\ module.TAG_FIELD_RELATED_NAME =
              ConfiguredOr("TAGGIT_TAG_FIELD_RELATED_NAME", "taggit_taggeditem_items")
        /\ module.MAX_WEIGHT = ConfiguredOr("TAGGIT_TAGCLOUD_MAX_WEIGHT", 60)
        /\ module.MIN_WEIGHT = ConfiguredOr("TAGGIT_TAGCLOUD_MIN_WEIGHT", 10)

\* C6: is_generic_tagging returns False for a through model with a foreign
\* key field named content_object, True for one with a generic foreign key
\* named content_object, and raises ImproperlyConfigured for every other one.
HasDirectContentObject(tm) ==
    /\ "content_object" \in DOMAIN tm.fields
    /\ tm.fields["content_object"] \in {"ForeignKey", "OneToOneField"}

HasGenericContentObject(tm) ==
    \E i \in 1..Len(tm.virtual_fields) :
        tm.virtual_fields[i] = [cls |-> "GenericForeignKey", name |-> "content_object"]

C6_ClassifierThreeOutcomes ==
    classified # Pending =>
        IF HasDirectContentObject(through_model)
        THEN classified = Return(FALSE)
        ELSE IF HasGenericContentObject(through_model)
        THEN classified = Return(TRUE)
        ELSE classified = Raise("ImproperlyConfigured")

\* C6 witness: all three outcomes are produced, here the generic one for a
\* model whose generic foreign key is not the first virtual field.
C6_Witness ==
    /\ classified = Return(TRUE)
    /\ Len(through_model.virtual_fields) = 2
    /\ through_model.virtual_fields[2].name = "content_object"

\* ------------------------------------------------------------------------
\* get_tag_list invocations, as the informal grammar writes them
\* ------------------------------------------------------------------------
\* `<tag_name> [for <f>] [limit <l>] as tags`, single-spaced; f and l are
\* optional argument texts
TagInvocation(tag_name, f, l) ==
    tag_name
    \o (IF f = None THEN << >> ELSE SP \o <<"f","o","r">> \o SP \o f[1])
    \o (IF l = None THEN << >> ELSE SP \o <<"l","i","m","i","t">> \o SP \o l[1])
    \o SP \o <<"a","s">> \o SP \o tags

Invocation(f, l) == TagInvocation(get_tag_list, f, l)

\* scopes the grammar allows: a variable, or a quoted label with at most one dot
ValidFor == { a \in ForArguments : a # <<"'","a",".","b",".","c","'">> }
OptionalFor     == {None} \cup { Some(a) : a \in ValidFor }
PositiveLimits  == { Some(Decimal(n)) : n \in 1..MaxLimit }
OptionalLimit   == {None} \cup PositiveLimits
Compiled        == compiled.kind \in {"return", "raise"}

\* C1: every invocation `[for <scope-or-var>] [limit <n>] as <var>` with n
\* positive compiles to a TagListNode for <var>, without a scope when `for`
\* is left out and without a limit when `limit` is left out.
C1_OptionalClausesAccepted ==
    Compiled =>
        \A f \in OptionalFor, l \in OptionalLimit :
            token = Invocation(f, l) =>
                /\ compiled.kind = "return"
                /\ compiled.value.cls = "TagListNode"
                /\ compiled.value.asvar = tags
                /\ (f = None => /\ compiled.value.app_label = None
                                /\ compiled.value.model_name = None
                                /\ compiled.value.content_qs_var = None)
                /\ (l = None => compiled.value.limit = None)

\* C2: an invocation whose limit is 0 or negative is rejected with a
\* TemplateSyntaxError, and no node is produced (stated for the invocations
\* that carry a `for` clause).
NonPositiveLimits == { Some(<<"0">>), Some(<<"-","1">>) }

C2_NonPositiveLimitRejected ==
    Compiled =>
        \A f \in OptionalFor \ {None}, l \in NonPositiveLimits :
            token = Invocation(f, l) =>
                /\ compiled = Raise("TemplateSyntaxError")
                /\ node = NoNode

\* C3: an invocation with malformed arguments (none at all, arguments that
\* do not fit the grammar, a quoted scope with more than one dot) ends
\* compilation with a TemplateSyntaxError and with no other exception.
NoAsClause ==
    { get_tag_list \o f \o l :
        f \in Clauses(SP, <<"f","o","r">>, ForArguments),
        l \in Clauses(SP, <<"l","i","m","i","t">>, LimitArguments) }

TwoDots == { Invocation(Some(<<"'","a",".","b",".","c","'">>), l) : l \in OptionalLimit }

C3_MalformedIsSyntaxError ==
    (Compiled /\ token \in NoAsClause \cup TwoDots) =>
        compiled = Raise("TemplateSyntaxError")

\* ------------------------------------------------------------------------
\* Renders
\* ------------------------------------------------------------------------
Rendered     == pc \notin {"idle", "start"}
ListRendered == Rendered /\ node.cls = "TagListNode"
EmptyReturn  == Return(Some(EmptyString))

GenericPath ==
    /\ db.installed
    /\ db.through.virtual_fields =
          <<[cls |-> "GenericForeignKey", name |-> "content_object"]>>
DirectPath ==
    /\ db.installed
    /\ "content_object" \in DOMAIN db.through.fields
    /\ db.through.fields["content_object"] = "ForeignKey"

\* the scope the node asks for does not name the relation's target model
ScopeMismatch ==
    /\ node.app_label # None
    /\ \/ node.app_label[1] # blog
       \/ node.model_name # None /\ node.model_name[1] # <<"p","o","s","t">>

\* the `for` variable is not bound to a query set of the target model
BadCollection ==
    /\ node.content_qs_var # None
    /\ \/ node.content_qs_var[1] \notin DOMAIN context
       \/ context[node.content_qs_var[1]] # QuerySet(BlogPost, <<Object(1)>>)

\* the scope is one the database can answer: the content type exists, the
\* `for` variable is bound to a suitable collection, the lookups resolve
ValidScope ==
    \/ /\ GenericPath
       /\ (node.app_label # None /\ node.model_name # None) =>
             [app_label |-> node.app_label[1], model |-> node.model_name[1]]
                \in db.content_types
       /\ node.content_qs_var # None =>
             (node.content_qs_var[1] \in DOMAIN context /\ db.gfk_lookup)
    \/ /\ DirectPath
       /\ ~ScopeMismatch
       /\ ~BadCollection
       /\ node.content_qs_var # None => db.reverse_lookup
       /\ db.through.tag_relname # None

SortedByCountDesc(rows) ==
    \A i, j \in DOMAIN rows : i < j => rows[i].count[1] >= rows[j].count[1]

\* C4: a TagListNode with limit n rendered with a valid scope sets the
\* target variable to at most n tags, each annotated with its count, by
\* count descending, on the generic and on the model-specific path.
C4_LimitedAnnotatedSorted ==
    (ListRendered /\ node.limit # None /\ ValidScope) =>
        /\ pc = "line 182"
        /\ node.asvar \in DOMAIN context
        /\ context[node.asvar].type = "QuerySet"
        /\ Len(context[node.asvar].rows) <= node.limit[1]
        /\ \A i \in DOMAIN context[node.asvar].rows :
              context[node.asvar].rows[i].count # None
        /\ SortedByCountDesc(context[node.asvar].rows)

\* a step that is one call of TagListNode.render
ListRenderStep == pc = "start" /\ node.cls = "TagListNode" /\ pc' # "start"

\* C5: a render that does not store a result raises nothing, returns the
\* empty string and leaves the context as it was; on the model-specific path
\* a scope that does not match the target model, and a `for` variable that is
\* not a query set of the target model, are such renders.
C5_SilentFailureKeepsContext ==
    [][ ListRenderStep =>
          /\ pc' # "line 182" => (ret' = EmptyReturn /\ context' = context)
          /\ (DirectPath /\ (ScopeMismatch \/ BadCollection)) => pc' # "line 182"
      ]_vars

\* C5 witness: a model-specific render refused for its application label,
\* with the target variable still bound to what the page had put there.
C5_Witness ==
    /\ ListRendered /\ DirectPath
    /\ pc = "line 161"
    /\ ret = EmptyReturn
    /\ tags \in DOMAIN context /\ context[tags] = String

\* C9: TagListNode.render returns the empty string on every path, the one
\* that stores the result included (stated for the nodes the tag compiles).
C9_RenderReturnsEmptyString ==
    (ListRendered /\ compiled.kind = "return") => ret = EmptyReturn

\* C10: the outcome of a render is the outcome a node just built from the
\* same compile-time arguments has in that context and database: the
\* collection kept from an earlier render plays no part.
C10_NoCarryOverBetweenRenders ==
    [][ ListRenderStep =>
          LET fresh == render([node EXCEPT !.content_qs = None], context, db)
          IN  /\ ret' = fresh.ret
              /\ context' = fresh.context
              /\ pc' = fresh.pc
      ]_vars

\* C10 witness: the node still holds the collection of an earlier render
\* after a render, on the generic path, whose context does not bind the
\* `for` variable.
C10_Witness ==
    /\ ListRendered /\ GenericPath
    /\ node.content_qs # None
    /\ node.content_qs_var = Some(objs)
    /\ objs \notin DOMAIN context
    /\ pc = "line 184"

\* C7: get_tag_cloud compiles to a node, and rendering that node binds a
\* collection of tags that each carry a weight: within [t_min, t_max], never
\* lower for a higher frequency, and t_max for all when the frequencies are
\* all equal.
Weighted(rows) ==
    /\ \A i \in DOMAIN rows :
          /\ "weight" \in DOMAIN rows[i]
          /\ rows[i].weight >= DefaultMinWeight
          /\ rows[i].weight <= DefaultMaxWeight
    /\ \A i, j \in DOMAIN rows :
          rows[i].count[1] > rows[j].count[1] => rows[i].weight >= rows[j].weight
    /\ (\A i, j \in DOMAIN rows : rows[i].count = rows[j].count) =>
          \A i \in DOMAIN rows : rows[i].weight = DefaultMaxWeight

C7_CloudWeightsAttached ==
    /\ (Compiled /\ \E f \in OptionalFor, l \in OptionalLimit :
                        token = TagInvocation(get_tag_cloud, f, l)) =>
          /\ compiled.kind = "return"
          /\ compiled.value # None
    /\ (Rendered /\ node.cls = "TagCloudNode" /\ GenericPath) =>
          \E v \in DOMAIN context :
              /\ context[v].type = "QuerySet"
              /\ context[v].model = Some(TagModel)
              /\ Len(context[v].rows) > 0
              /\ Weighted(context[v].rows)

====
